---- MODULE Spec2Model ----
(***************************************************************************)
(* Model of the HTTP layer of src/index.js (akashic-mcp): the streaming    *)
(* endpoint (GET /mcp/sse), the message endpoint (POST /mcp/messages), the *)
(* transport registry sseTransports, the shared server singleton           *)
(* mcpServerPromise, and the internal proxy client (getProxyClient) that   *)
(* serves /proxy/tools and /proxy/call by connecting to the server's own   *)
(* streaming endpoint.                                                     *)
(*                                                                         *)
(* Node runs the handlers on one thread.  An action below is what one      *)
(* event of the event loop does: the callback of the event, and every      *)
(* continuation that the promises it settles make runnable, since those    *)
(* run (as microtasks) before the next event is taken.  The events are: a  *)
(* request arriving, a connection closing, createMcpServer settling, the   *)
(* handler of a frame completing, a response or a result reaching the      *)
(* bridge's client.                                                        *)
(*                                                                         *)
(* The MCP SDK objects used by index.js are modelled by what index.js      *)
(* relies on: a server (Protocol) keeps ONE current transport, set by      *)
(* connect(transport) and cleared when a connected transport closes, and   *)
(* a request's result is sent over the transport that was current when the *)
(* request was dispatched.                                                 *)
(***************************************************************************)
EXTENDS Integers, FiniteSets, Sequences, TLC

\* ----------------------------------------------------------------- bounds
MaxConns == 2        \* streaming connections opened in a run
MaxProxyReqs == 2    \* /proxy/* requests in a run
MaxFrames == 1       \* external clients' request frames awaiting their result at one time
MaxPosts == 2        \* message POSTs whose body arrives after their headers, in a run

\* a bridge construction is started by a /proxy/* request, and by one only
MaxAttempts == MaxProxyReqs

Conns == 1..MaxConns
SessionIds == 1..MaxConns      \* the session id values transports are given
Attempts == 1..MaxAttempts
ProxyReqs == 1..MaxProxyReqs
Frames == 1..MaxFrames
Posts == 1..MaxPosts

\* ------------------------------------------------------- values of the code
NoId == 0            \* getSessionId's null / a transport without sessionId
Absent == -1         \* header undefined / searchParams.get(...) === null
EmptyStr == -2       \* the string ""
BlankStr == -3       \* a string of white space only
NoTransport == 0     \* Map.get's undefined / Protocol._transport undefined
NoClient == 0        \* proxyClient === null / proxyClientPromise === null
StrayId == MaxConns + 1   \* an id string that no transport was ever given

\* the keys of the registry: a session id, or the value of a transport that
\* has none (undefined)
Keys == SessionIds \cup {NoId}

ReqValues == SessionIds \cup {StrayId, Absent, EmptyStr, BlankStr}

VARIABLES
    mcpServerPromise,   \* "null" | "pending" | "resolved" | "rejected"
    createCalls,        \* number of createMcpServer() invocations
    serverTransport,    \* the shared server's current transport (a conn) or NoTransport
    sseTransports,      \* the registry: session id -> transport (a conn) or NoTransport
    nConns,             \* streaming connections accepted so far
    conn,               \* per streaming connection: the handler's position and its transport
    proxyClient,        \* the cached bridge client (its attempt) or NoClient
    proxyClientPromise, \* the in-flight bridge construction (its attempt) or NoClient
    nAttempts,          \* bridge constructions started so far
    attempt,            \* per bridge construction: its progress and its initialize frame
    nProxyReqs,         \* /proxy/* requests received so far
    preq,               \* per /proxy/* request: the handler's position, its frame, its answer,
                        \* and how getProxyClient answered it (started, joined, cached,
                        \* cachedClosed: cached, the bridge's connection having closed)
    frames,             \* external clients' request frames: where each came in, where its result went
    lastPost,           \* the latest message POST: what was asked and what was answered
    crashed,            \* an exception escaped a request handler
    sdk,                \* how the installed SDK's McpServer answers a tools/call it cannot
                        \* run (unknown name, invalid arguments): "toolError" | "protocolError"
    posts,              \* message POSTs whose body is still arriving: the handlers
                        \* suspended inside handlePostMessage
    resolved,           \* the latest getSessionId call: its inputs and what it returned
    toolRun,            \* the latest run of a tool handler: its arguments and what it did
    unrouted            \* the latest request that matched no route, and what it was answered

vars == <<mcpServerPromise, createCalls, serverTransport, sseTransports, nConns, conn,
          proxyClient, proxyClientPromise, nAttempts, attempt, nProxyReqs, preq,
          frames, lastPost, crashed, sdk, posts, resolved, toolRun, unrouted>>

serverVars == <<mcpServerPromise, createCalls>>
bridgeVars == <<proxyClient, proxyClientPromise, nAttempts, attempt>>
proxyVars == <<nProxyReqs, preq>>
otherVars == <<sdk, posts, resolved, toolRun, unrouted>>

\* ------------------------------------------------------------ initial state
\* The SDK's McpServer answers a tools/call it cannot run (no tool of that name,
\* arguments the tool's schema rejects) in one of two ways, by its release: with
\* a ToolResult that carries isError, or with a JSON-RPC error response.
SdkToolErrors == {"toolError", "protocolError"}

FreeConn == [pc |-> "free", owner |-> 0, sid |-> NoId, closed |-> FALSE,
             sseResponse |-> FALSE, status |-> 0, server |-> 0]
FreeAttempt == [st |-> "unused", over |-> NoTransport]
\* no JSON-RPC response / no HTTP body (yet)
NoResponse == [kind |-> "none"]

FreeReq == [pc |-> "free", att |-> NoClient, how |-> "none", status |-> 0,
            via |-> NoTransport, over |-> NoTransport,
            ask |-> "none", result |-> NoResponse, body |-> NoResponse, why |-> "none"]
FreeFrame == [state |-> "free", to |-> NoTransport, via |-> NoTransport,
              over |-> NoTransport, ask |-> "none", result |-> NoResponse]
NoPost == [sid |-> NoId, present |-> NoTransport, status |-> 0,
           error |-> "none", to |-> NoTransport, sent |-> <<>>]
FreePost == [state |-> "free", to |-> NoTransport, arrived |-> 0, dispatched |-> 0]
NoResolved == [header |-> Absent, sessionId |-> Absent, session_id |-> Absent, id |-> NoId]
NoUnrouted == [method |-> "none", path |-> "none", sent |-> <<>>, body |-> "none"]
NoToolRun == [tool |-> "none", path |-> "none", extra |-> "none", env |-> "none",
              isError |-> FALSE, effects |-> {}, thrown |-> FALSE]

Init ==
    /\ mcpServerPromise = "null"
    /\ createCalls = 0
    /\ serverTransport = NoTransport
    /\ sseTransports = [s \in Keys |-> NoTransport]
    /\ nConns = 0
    /\ conn = [c \in Conns |-> FreeConn]
    /\ proxyClient = NoClient
    /\ proxyClientPromise = NoClient
    /\ nAttempts = 0
    /\ attempt = [k \in Attempts |-> FreeAttempt]
    /\ nProxyReqs = 0
    /\ preq = [r \in ProxyReqs |-> FreeReq]
    /\ frames = [f \in Frames |-> FreeFrame]
    /\ lastPost = NoPost
    /\ crashed = FALSE
    /\ sdk \in SdkToolErrors
    /\ posts = [p \in Posts |-> FreePost]
    /\ resolved = NoResolved
    /\ toolRun = NoToolRun
    /\ unrouted = NoUnrouted

\* ------------------------------------------------ the registry (a JS Map)
\* A lookup that ignores the id and takes the first transport of the registry.
LookupFirst(reg, sid) ==
    IF \E s \in DOMAIN reg : reg[s] # NoTransport
    THEN reg[CHOOSE s \in DOMAIN reg : reg[s] # NoTransport /\ \A u \in DOMAIN reg :
                                            reg[u] # NoTransport => s <= u]
    ELSE NoTransport

\* A registration without the test of the id (line 1723): a transport that
\* has no id is stored all the same.
RegisterNoTest(reg, sid, t) == [reg EXCEPT ![sid] = t]

\* A registration that keeps the transport an id is registered with already.
RegisterKeepsFirst(reg, sid, t) ==
    IF sid # NoId /\ reg[sid] = NoTransport THEN [reg EXCEPT ![sid] = t] ELSE reg

\* A removal that, when the id is absent, takes the first entry there is.
UnregisterOrFirst(reg, sid) ==
    IF sid \in DOMAIN reg /\ reg[sid] # NoTransport THEN [reg EXCEPT ![sid] = NoTransport]
    ELSE IF \E s \in DOMAIN reg : reg[s] # NoTransport
    THEN [reg EXCEPT ![CHOOSE s \in DOMAIN reg : reg[s] # NoTransport] = NoTransport]
    ELSE reg

\* A removal that empties the registry.
UnregisterAll(reg, sid) == [s \in DOMAIN reg |-> NoTransport]

\* sseTransports.get(sessionId)
Lookup(reg, sid) == IF sid \in DOMAIN reg THEN reg[sid] ELSE NoTransport

\* if (sessionId) { sseTransports.set(sessionId, transport); ... }
Register(reg, sid, t) == IF sid # NoId THEN [reg EXCEPT ![sid] = t] ELSE reg

\* the close callback: sseTransports.delete(sessionId)
Unregister(reg, sid) == IF sid \in DOMAIN reg THEN [reg EXCEPT ![sid] = NoTransport] ELSE reg

\* ------------------------------------------------------------ getSessionId
\* a || b of two searchParams.get results: "" and null are falsy, " " is truthy
OrElse(a, b) == IF a \notin {Absent, EmptyStr} THEN a ELSE b

\* v && v.trim(): a string with something other than white space in it
NonBlank(v) == v \notin {Absent, EmptyStr, BlankStr}

\* getSessionId(req, url): the header mcp-session-id, else the query parameter
\* sessionId, else session_id.  (Node hands a repeated mcp-session-id header
\* over as one joined string, so the array case of lines 1640-1642 has no input.)
GetSessionId(header, q1, q2) ==
    IF NonBlank(header) THEN header
    ELSE LET querySession == OrElse(q1, q2)
         IN  IF NonBlank(querySession) THEN querySession ELSE NoId

\* getSessionId applied to a request with the given header and query parameters
ResolveId(header, q1, q2) ==
    /\ resolved' = [header |-> header, sessionId |-> q1, session_id |-> q2,
                    id |-> GetSessionId(header, q1, q2)]
    /\ UNCHANGED <<serverVars, serverTransport, sseTransports, nConns, conn, bridgeVars,
                   proxyVars, frames, lastPost, crashed, sdk, posts, toolRun, unrouted>>

\* A handler without the outer try/catch: the exception leaves the handler.
OuterRethrow == [status |-> 0, escaped |-> TRUE]

\* ----------------------------------------------- the outer try/catch of the
\* request handler: the exception is answered 500 and goes no further
OuterCatch == [status |-> 500, escaped |-> FALSE]

\* ------------------------------------------------- writing to a response
\* A response object is modelled by the statuses of the responses it has put on
\* the wire, in order: <<>> before anything is sent.
\* sendJson(res, status, payload), lines 1694-1698: res.setHeader throws once
\* the headers have been sent, before res.end is reached.
SendJsonOn(sent, status) ==
    IF sent = <<>>
    THEN [sent |-> <<status>>, threw |-> FALSE]
    ELSE [sent |-> sent, threw |-> TRUE]

\* res.statusCode = status; res.end(text), lines 1782-1783 and 1785-1786: on a
\* response that has ended neither statement does anything.
EndOn(sent, status) ==
    IF sent = <<>> THEN <<status>> ELSE sent

\* What the message endpoint's handler (lines 1735-1760) puts on the wire for
\* the outcome out.  Without a transport the handler answers with sendJson.
\* With one, handlePostMessage answers 202 or 400 itself and returns; on a
\* transport without its stream it answers 500 and then throws: the inner
\* catch calls sendJson on the response that was sent, which throws into the
\* outer catch, whose res.end finds the response ended.
Written(out) ==
    IF out.to = NoTransport
    THEN SendJsonOn(<<>>, out.status).sent
    ELSE IF out.status = 500
    THEN LET inner == SendJsonOn(<<500>>, 400)
         IN  IF inner.threw THEN EndOn(inner.sent, OuterCatch.status) ELSE inner.sent
    ELSE <<out.status>>

\* A message handler that drops a POST for an unknown session id: it returns
\* without writing a response.
MessageHandlerDrops(header, q1, q2, body) ==
    LET sessionId == GetSessionId(header, q1, q2)
        transport == Lookup(sseTransports, sessionId)
    IN  IF sessionId = NoId
        THEN [sid |-> sessionId, status |-> 400, error |-> "Missing sessionId.",
              to |-> NoTransport]
        ELSE IF transport = NoTransport
        THEN [sid |-> sessionId, status |-> 0, error |-> "none", to |-> NoTransport]
        ELSE IF ~conn[transport].sseResponse
        THEN [sid |-> sessionId, status |-> 500, error |-> "SSE connection not established",
              to |-> transport]
        ELSE IF body = "bad"
        THEN [sid |-> sessionId, status |-> 400, error |-> "Invalid message",
              to |-> transport]
        ELSE [sid |-> sessionId, status |-> 202, error |-> "none", to |-> transport]

\* A message handler without the check of the looked-up transport (lines
\* 1743-1745): calling a method of undefined throws, and the inner catch
\* answers 400 with the exception's message.
MessageHandlerNoCheck(header, q1, q2, body) ==
    LET sessionId == GetSessionId(header, q1, q2)
        transport == Lookup(sseTransports, sessionId)
    IN  IF sessionId = NoId
        THEN [sid |-> sessionId, status |-> 400, error |-> "Missing sessionId.",
              to |-> NoTransport]
        ELSE IF transport = NoTransport
        THEN [sid |-> sessionId, status |-> 400, error |-> "Cannot read properties of undefined",
              to |-> NoTransport]
        ELSE IF ~conn[transport].sseResponse
        THEN [sid |-> sessionId, status |-> 500, error |-> "SSE connection not established",
              to |-> transport]
        ELSE IF body = "bad"
        THEN [sid |-> sessionId, status |-> 400, error |-> "Invalid message",
              to |-> transport]
        ELSE [sid |-> sessionId, status |-> 202, error |-> "none", to |-> transport]

\* A message handler whose delegation is not guarded: a failure of
\* handlePostMessage leaves the inner try and is answered by the outer catch.
MessageHandlerUnguarded(header, q1, q2, body) ==
    LET sessionId == GetSessionId(header, q1, q2)
        transport == Lookup(sseTransports, sessionId)
    IN  IF sessionId = NoId
        THEN [sid |-> sessionId, status |-> 400, error |-> "Missing sessionId.",
              to |-> NoTransport]
        ELSE IF transport = NoTransport
        THEN [sid |-> sessionId, status |-> 404, error |-> "Unknown sessionId.",
              to |-> NoTransport]
        ELSE IF ~conn[transport].sseResponse \/ body = "bad"
        THEN [sid |-> sessionId, status |-> OuterCatch.status,
              error |-> "Internal Server Error", to |-> transport]
        ELSE [sid |-> sessionId, status |-> 202, error |-> "none", to |-> transport]

\* A message handler that looks the id up before it tests for a missing one:
\* the lookup of a missing id finds nothing, and the answer is 404.
MessageHandlerLookupBefore(header, q1, q2, body) ==
    LET sessionId == GetSessionId(header, q1, q2)
        transport == Lookup(sseTransports, sessionId)
    IN  IF transport = NoTransport
        THEN [sid |-> sessionId, status |-> 404, error |-> "Unknown sessionId.",
              to |-> NoTransport]
        ELSE IF sessionId = NoId
        THEN [sid |-> sessionId, status |-> 400, error |-> "Missing sessionId.",
              to |-> NoTransport]
        ELSE IF ~conn[transport].sseResponse
        THEN [sid |-> sessionId, status |-> 500, error |-> "SSE connection not established",
              to |-> transport]
        ELSE IF body = "bad"
        THEN [sid |-> sessionId, status |-> 400, error |-> "Invalid message",
              to |-> transport]
        ELSE [sid |-> sessionId, status |-> 202, error |-> "none", to |-> transport]

\* --------------------------------------------- the message endpoint handler
\* What one POST /mcp/messages is answered, and the transport whose
\* handlePostMessage it was handed to.  body is a request frame (one of Asks,
\* or "request": the bridge's initialize), "notification", or "bad"
\* (unparseable / not a protocol message).
\* handlePostMessage fails on a transport without its stream and on a body it
\* cannot parse or dispatch; the failure stays within lines 1737-1759 (the
\* transport answers it, or throws into the catch of lines 1755-1759 which
\* answers 400 with the error's message) and never reaches the outer catch.
MessageHandler(header, q1, q2, body) ==
    LET sessionId == GetSessionId(header, q1, q2)
        transport == Lookup(sseTransports, sessionId)
    IN  IF sessionId = NoId
        THEN [sid |-> sessionId, status |-> 400, error |-> "Missing sessionId.",
              to |-> NoTransport]
        ELSE IF transport = NoTransport
        THEN [sid |-> sessionId, status |-> 404, error |-> "Unknown sessionId.",
              to |-> NoTransport]
        ELSE IF ~conn[transport].sseResponse
        THEN [sid |-> sessionId, status |-> 500, error |-> "SSE connection not established",
              to |-> transport]
        ELSE IF body = "bad"
        THEN [sid |-> sessionId, status |-> 400, error |-> "Invalid message",
              to |-> transport]
        ELSE [sid |-> sessionId, status |-> 202, error |-> "none", to |-> transport]

\* The record kept of a POST: the answer, and what the registry held for the
\* resolved id when the POST was handled.
PostRecord(out) ==
    [sid |-> out.sid,
     present |-> IF out.sid \in SessionIds THEN sseTransports[out.sid] ELSE NoTransport,
     status |-> out.status, error |-> out.error, to |-> out.to,
     sent |-> Written(out)]

\* ------------------------------------------------------ the shared server
\* mcpServer.connect(transport): the transport becomes the server's current one
Connect(t) == t

\* A request frame handed to the server by any transport: its result will be
\* sent over the transport that is the server's current one.
CapturedTransport == serverTransport

\* The result of a frame is sent over the captured transport, if that still
\* has its stream; the value is the connection the result went out on.
SendResult(via) ==
    IF via # NoTransport /\ conn[via].sseResponse THEN via ELSE NoTransport

\* the connection the bridge construction k opened to /mcp/sse, if it has arrived
BridgeConns(k) == {c \in Conns : conn[c].pc # "free" /\ conn[c].owner = k}
BridgeConn(k) == CHOOSE c \in BridgeConns(k) : TRUE

\* the session id the bridge's client posts to: the one of the endpoint event
EndpointId(c) == IF conn[c].sid = NoId THEN StrayId ELSE conn[c].sid

\* --------------------------------------------- the shared server's answers
\* the tools createMcpServer registers, in the order of their registration
RegisteredTools ==
    <<"search_akashic_docs", "create_game_file", "init_project", "init_minimal_template",
      "akashic_scan_asset", "akashic_install_extension", "import_external_assets",
      "headless_akashic_test", "format_with_eslint", "write_project_readme",
      "zip_project_base64">>

\* What a request frame asks of the server: "list" is tools/list; "tool" is a
\* tools/call of a registered tool that its handler carries out; "toolFails" one
\* that its handler cannot carry out (it returns isError: true, as every
\* handler of createMcpServer does for its own failures); "unknown" names no
\* registered tool; "badArgs" has arguments the tool's schema rejects.
Asks == {"list", "tool", "toolFails", "unknown", "badArgs"}

\* a top-level JSON array with the given items
JsonArray(items) == [array |-> items]

\* a tools/list that reports no tool
ListToolsNone == [tools |-> <<>>]

\* the result of tools/list: an object whose member tools is the array of the
\* descriptors (a descriptor is written as the tool's name)
ListToolsResult == [tools |-> RegisteredTools]

\* a ToolResult: isError is "true", or "absent" when the handler set none
ToolResult(isError) == [content |-> "text", isError |-> isError]

\* JSON.stringify of a value and JSON.parse of the text: the members that are
\* set, each with its value (a member that is undefined is left out)
Json(payload) ==
    IF "isError" \in DOMAIN payload /\ payload.isError = "absent"
    THEN [m \in DOMAIN payload \ {"isError"} |-> payload[m]]
    ELSE payload

\* the JSON-RPC response of the shared server to a request frame
ServerResponse(ask) ==
    IF ask = "list" THEN [kind |-> "result", value |-> ListToolsResult]
    ELSE IF ask = "tool" THEN [kind |-> "result", value |-> ToolResult("absent")]
    ELSE IF ask = "toolFails" THEN [kind |-> "result", value |-> ToolResult("true")]
    ELSE IF sdk = "toolError" THEN [kind |-> "result", value |-> ToolResult("true")]
    ELSE [kind |-> "error"]

\* ------------------------------------------------- the tools' path checks
\* the tools that take a path argument (filePath or directoryName)
PathTools ==
    {"create_game_file", "init_project", "init_minimal_template", "akashic_scan_asset",
     "akashic_install_extension", "import_external_assets", "headless_akashic_test",
     "format_with_eslint", "write_project_readme", "zip_project_base64"}

\* the tools with a second argument that is resolved against the project
\* directory: assets[].fileName (lines 1162-1176), gameJsonPath (lines 1287-1290),
\* targetGlob (lines 1432-1433)
SecondPathTools == {"import_external_assets", "headless_akashic_test", "format_with_eslint"}

\* a path argument: absolute, relative without '..', relative with '..'
PathKinds == {"abs", "rel", "relDots"}

\* the second path argument: not given, or relative without or with '..'
ExtraKinds == {"none", "rel", "relDots"}

\* what the handler finds on disk: "ready" is the state in which every test it
\* makes after the path check passes (the directory is there, or is empty for
\* the two init tools; the modules are installed; the download succeeds)
Envs == {"ready", "notReady"}

\* if (!path.isAbsolute(x) && x.includes('..')): the first statement of every
\* handler, on filePath or directoryName
RejectsPath(kind) == kind = "relDots"

\* the tools whose handler tests the disk before it changes anything
\* (create_game_file makes no test)
TestsEnv(tool) == tool # "create_game_file"

\* the filesystem changes and external commands of a handler that runs to its
\* end; "writeOutside" is a file written to a place outside the project
\* directory (path.resolve(outDir, fileName) with a fileName that climbs out)
Effects(tool, extra) ==
    IF tool = "create_game_file" THEN {"mkdir", "write"}
    ELSE IF tool = "init_project" THEN {"mkdir", "exec"}
    ELSE IF tool = "init_minimal_template" THEN {"mkdir", "write"}
    ELSE IF tool \in {"akashic_scan_asset", "akashic_install_extension"} THEN {"exec"}
    ELSE IF tool = "import_external_assets"
    THEN {"mkdir", "write", "exec"} \cup (IF extra = "relDots" THEN {"writeOutside"} ELSE {})
    ELSE IF tool = "headless_akashic_test" THEN {"mkdir", "write", "exec"}
    ELSE IF tool = "format_with_eslint" THEN {"write", "exec"}
    ELSE IF tool = "write_project_readme" THEN {"write"}
    ELSE {}

\* the handler of a path tool: the result's isError and what it did
ToolHandler(tool, kind, extra, env) ==
    IF RejectsPath(kind) THEN [isError |-> TRUE, effects |-> {}]
    ELSE IF TestsEnv(tool) /\ env = "notReady" THEN [isError |-> TRUE, effects |-> {}]
    ELSE [isError |-> FALSE, effects |-> Effects(tool, extra)]

\* one call of a path tool
RunTool(tool, kind, extra, env) ==
    /\ extra # "none" => tool \in SecondPathTools
    /\ LET out == ToolHandler(tool, kind, extra, env)
       IN  toolRun' = [tool |-> tool, path |-> kind, extra |-> extra, env |-> env,
                       isError |-> out.isError, effects |-> out.effects, thrown |-> FALSE]
    /\ UNCHANGED <<serverVars, serverTransport, sseTransports, nConns, conn, bridgeVars,
                   proxyVars, frames, lastPost, crashed, sdk, posts, resolved, unrouted>>

\* What can fail inside a handler: the path argument is a relative path with
\* '..'; the target exists but is not a directory; a directory cannot be made;
\* an external command fails; a download fails; a file cannot be written.
Failures == {"invalidPath", "notDirectory", "mkdir", "exec", "download", "write"}

\* the two init tools: they test the target with fs.existsSync and then call
\* fs.readdirSync or fs.mkdirSync before their try block begins (lines
\* 789-799, 861-871)
InitTools == {"init_project", "init_minimal_template"}

\* What the handler of a path tool does when the failure occurs in it: it
\* returns a result with isError: true ("isError"), or the exception leaves the
\* handler ("throws"); "none" when the handler has no step that can fail so.
FailureOutcome(tool, failure) ==
    IF failure = "invalidPath" THEN "isError"
    ELSE IF failure = "notDirectory"
    THEN IF tool \in InitTools THEN "throws" ELSE "isError"
    ELSE IF failure = "mkdir"
    THEN IF tool \in InitTools \cup {"import_external_assets"} THEN "throws"
         ELSE IF tool \in {"create_game_file", "headless_akashic_test"} THEN "isError"
         ELSE "none"
    ELSE IF failure = "exec"
    THEN IF tool \in {"init_project", "akashic_scan_asset", "akashic_install_extension",
                      "import_external_assets", "headless_akashic_test", "format_with_eslint"}
         THEN "isError" ELSE "none"
    ELSE IF failure = "download"
    THEN IF tool = "import_external_assets" THEN "isError" ELSE "none"
    ELSE IF tool \in {"create_game_file", "init_minimal_template", "import_external_assets",
                      "headless_akashic_test", "format_with_eslint", "write_project_readme"}
         THEN "isError" ELSE "none"

\* one call of a path tool in which the failure occurs
FailTool(tool, failure) ==
    /\ FailureOutcome(tool, failure) # "none"
    /\ toolRun' = [tool |-> tool,
                   path |-> IF failure = "invalidPath" THEN "relDots" ELSE "rel",
                   extra |-> "none", env |-> failure,
                   isError |-> FailureOutcome(tool, failure) = "isError",
                   effects |-> {},
                   thrown |-> FailureOutcome(tool, failure) = "throws"]
    /\ UNCHANGED <<serverVars, serverTransport, sseTransports, nConns, conn, bridgeVars,
                   proxyVars, frames, lastPost, crashed, sdk, posts, resolved, unrouted>>

\* ---------------------------------------------------- streaming endpoint
\* A test of the server instead of its promise: true until the server is built.
NoServerYet == mcpServerPromise # "resolved"

\* A test that also takes a rejected promise for none: the construction of the
\* server is started again after it has failed.
NoServerOrRejected == mcpServerPromise \in {"null", "rejected"}

\* if (!mcpServerPromise), line 1717
NoServerPromise == mcpServerPromise = "null"

\* new SSEServerTransport(...).sessionId is a random UUID, an id no other
\* transport has: connection c's is written c.  (A map gives every connection
\* the id its transport gets.)
NewSessionIds == {[c \in Conns |-> c]}

\* What transport.sessionId may be taken to be when nothing is assumed of the
\* SDK's transport: any id, the id of another transport included, or none.
\* (Lines 1722-1730 are written for every such value.)
AnySessionIds == [Conns -> Keys]

\* Lines 1721-1731 for connection record cr: the connection is accepted, its
\* transport has its stream and is bound to the server built by createMcpServer.
Accepted(cr, sid) ==
    [cr EXCEPT !.pc = "open", !.sid = sid, !.sseResponse = TRUE, !.status = 200,
               !.server = createCalls]

\* Lines 1784-1788 for connection record cr: the rejection of mcpServerPromise
\* is caught and answered.
Refused(cr) == [cr EXCEPT !.pc = "done", !.status = OuterCatch.status]

\* the handlers that are suspended in await mcpServerPromise
Awaiting == {c \in Conns : conn[c].pc = "awaitServer"}

\* lines 1723-1727 for the connections cs, in the order of their arrival
RECURSIVE RegisterAll(_, _, _)
RegisterAll(reg, cs, sids) ==
    IF cs = {} THEN reg
    ELSE LET c == CHOOSE x \in cs : \A y \in cs : x <= y
         IN  RegisterAll(Register(reg, sids[c], c), cs \ {c}, sids)

\* GET /mcp/sse arrives (owner 0: an external client; owner k: the bridge
\* construction k).  Lines 1717-1720: the first request starts createMcpServer;
\* every request awaits mcpServerPromise.  When that is settled already the
\* handler goes on at once: lines 1721-1732, or the outer catch.
SseRequest(owner, sids) ==
    /\ ~crashed
    /\ nConns < MaxConns
    /\ owner # 0 => attempt[owner].st = "connecting" /\ BridgeConns(owner) = {}
    /\ nConns' = nConns + 1
    /\ LET c == nConns + 1
           cr == [FreeConn EXCEPT !.owner = owner]
       IN  IF NoServerPromise
           THEN /\ mcpServerPromise' = "pending"
                /\ createCalls' = createCalls + 1
                /\ conn' = [conn EXCEPT ![c] = [cr EXCEPT !.pc = "awaitServer"]]
                /\ UNCHANGED <<sseTransports, serverTransport, crashed>>
           ELSE IF mcpServerPromise = "resolved"
           THEN /\ conn' = [conn EXCEPT ![c] = Accepted(cr, sids[c])]
                /\ sseTransports' = Register(sseTransports, sids[c], c)
                /\ serverTransport' = Connect(c)
                /\ UNCHANGED <<serverVars, crashed>>
           ELSE IF mcpServerPromise = "rejected"
           THEN /\ conn' = [conn EXCEPT ![c] = Refused(cr)]
                /\ crashed' = OuterCatch.escaped
                /\ UNCHANGED <<serverVars, sseTransports, serverTransport>>
           ELSE /\ conn' = [conn EXCEPT ![c] = [cr EXCEPT !.pc = "awaitServer"]]
                /\ UNCHANGED <<serverVars, sseTransports, serverTransport, crashed>>
    /\ UNCHANGED <<bridgeVars, proxyVars, frames, lastPost, otherVars>>

\* createMcpServer() settles: it returns the server, or throws.  The handlers
\* suspended in await mcpServerPromise go on, in the order of their arrival:
\* lines 1721-1732 for each, or the outer catch for each.
ServerSettle(ok, sids) ==
    /\ ~crashed
    /\ mcpServerPromise = "pending"
    /\ mcpServerPromise' = IF ok THEN "resolved" ELSE "rejected"
    /\ IF ok
       THEN /\ conn' = [c \in Conns |-> IF c \in Awaiting THEN Accepted(conn[c], sids[c])
                                        ELSE conn[c]]
            /\ sseTransports' = RegisterAll(sseTransports, Awaiting, sids)
            /\ serverTransport' = IF Awaiting = {} THEN serverTransport
                                  ELSE Connect(CHOOSE x \in Awaiting : \A y \in Awaiting : y <= x)
            /\ UNCHANGED crashed
       ELSE /\ conn' = [c \in Conns |-> IF c \in Awaiting THEN Refused(conn[c]) ELSE conn[c]]
            /\ crashed' = (crashed \/ (Awaiting # {} /\ OuterCatch.escaped))
            /\ UNCHANGED <<sseTransports, serverTransport>>
    /\ UNCHANGED <<createCalls, nConns, bridgeVars, proxyVars, frames, lastPost, otherVars>>

\* The underlying connection of c ends: res emits 'close', once.  The listeners
\* registered by then run: the handler's (lines 1725-1727) and the transport's,
\* which clears the shared server's current transport.
CloseConn(c) ==
    /\ ~crashed
    /\ conn[c].pc \in {"awaitServer", "open"}
    /\ ~conn[c].closed
    /\ IF conn[c].pc = "open"
       THEN /\ sseTransports' = Unregister(sseTransports, conn[c].sid)
            /\ serverTransport' = NoTransport
            /\ conn' = [conn EXCEPT ![c].closed = TRUE, ![c].sseResponse = FALSE]
       ELSE /\ conn' = [conn EXCEPT ![c].closed = TRUE]
            /\ UNCHANGED <<sseTransports, serverTransport>>
    /\ UNCHANGED <<serverVars, nConns, bridgeVars, proxyVars, frames, lastPost, crashed,
                   otherVars>>

\* ------------------------------------------------------ message endpoint
\* A frame slot is free once its result has been sent.
FreeSlots == {f \in Frames : frames[f].state # "dispatched"}
NewSlot == CHOOSE f \in FreeSlots : \A g \in FreeSlots : f <= g

\* POST /mcp/messages from an external client (lines 1735-1760), taken as
\* arriving whole: the transport reads the body, answers, and hands a request
\* frame to the shared server.
ClientPost(header, q1, q2, body) ==
    /\ ~crashed
    /\ LET out == MessageHandler(header, q1, q2, body)
       IN  /\ lastPost' = PostRecord(out)
           /\ IF out.status = 202 /\ body \in Asks
              THEN /\ FreeSlots # {}
                   /\ frames' = [frames EXCEPT ![NewSlot] =
                          [FreeFrame EXCEPT !.state = "dispatched", !.to = out.to,
                                            !.via = CapturedTransport, !.ask = body]]
              ELSE UNCHANGED frames
    /\ UNCHANGED <<serverVars, serverTransport, sseTransports, nConns, conn, bridgeVars,
                   proxyVars, crashed, otherVars>>

\* The handler of an external client's frame f completes and its result is sent.
FrameRespond(f) ==
    /\ ~crashed
    /\ frames[f].state = "dispatched"
    /\ frames' = [frames EXCEPT ![f].state = "responded", ![f].via = NoTransport,
                                ![f].over = SendResult(frames[f].via),
                                ![f].result = ServerResponse(frames[f].ask)]
    /\ UNCHANGED <<serverVars, serverTransport, sseTransports, nConns, conn, bridgeVars,
                   proxyVars, lastPost, crashed, otherVars>>

\* --------------------------------- message POSTs whose body comes later
\* Node calls the request handler when the headers of a request have been
\* read.  Lines 1737-1745 run at once; handlePostMessage (line 1747) tests the
\* transport's stream and then awaits the body of the request, and hands the
\* frame to the server when the body is complete.
FreePosts == {p \in Posts : posts[p].state = "free"}
NewPost == CHOOSE p \in FreePosts : \A q \in FreePosts : p <= q

\* the numbers given so far to arrivals and to dispatches
Arrivals == Cardinality({p \in Posts : posts[p].arrived # 0})
Dispatches == Cardinality({p \in Posts : posts[p].dispatched # 0})

\* The headers of a POST /mcp/messages arrive: the handler resolves the id and
\* looks the transport up; a POST it cannot route is answered at once, the
\* handler of any other is suspended until the body is there.
PostArrive(header, q1, q2) ==
    /\ ~crashed
    /\ FreePosts # {}
    /\ LET out == MessageHandler(header, q1, q2, "notification")
       IN  IF out.status = 202
           THEN /\ posts' = [posts EXCEPT ![NewPost] =
                        [FreePost EXCEPT !.state = "reading", !.to = out.to,
                                         !.arrived = Arrivals + 1]]
                /\ UNCHANGED lastPost
           ELSE /\ posts' = [posts EXCEPT ![NewPost] =
                        [FreePost EXCEPT !.state = "done", !.arrived = Arrivals + 1]]
                /\ lastPost' = PostRecord(out)
    /\ UNCHANGED <<serverVars, serverTransport, sseTransports, nConns, conn, bridgeVars,
                   proxyVars, frames, crashed, sdk, resolved, toolRun, unrouted>>

\* The body of the POST p is complete: the transport parses it, answers 400 for
\* a body that is no message, and otherwise hands the frame to the shared
\* server and answers 202.
PostBody(p, body) ==
    /\ ~crashed
    /\ posts[p].state = "reading"
    /\ LET out == [sid |-> conn[posts[p].to].sid,
                   status |-> IF body = "bad" THEN 400 ELSE 202,
                   error |-> IF body = "bad" THEN "Invalid message" ELSE "none",
                   to |-> posts[p].to]
       IN  /\ lastPost' = PostRecord(out)
           /\ IF out.status = 202
              THEN /\ posts' = [posts EXCEPT ![p].state = "done",
                                             ![p].dispatched = Dispatches + 1]
                   /\ IF body \in Asks
                      THEN /\ FreeSlots # {}
                           /\ frames' = [frames EXCEPT ![NewSlot] =
                                  [FreeFrame EXCEPT !.state = "dispatched", !.to = out.to,
                                                    !.via = CapturedTransport, !.ask = body]]
                      ELSE UNCHANGED frames
              ELSE /\ posts' = [posts EXCEPT ![p].state = "done"]
                   /\ UNCHANGED frames
    /\ UNCHANGED <<serverVars, serverTransport, sseTransports, nConns, conn, bridgeVars,
                   proxyVars, crashed, sdk, resolved, toolRun, unrouted>>

\* --------------------------------------------------------- getProxyClient
\* getProxyClient without the test of the promise in flight (lines 1657-1659)
GetProxyClientNoJoin ==
    IF proxyClient # NoClient
    THEN [kind |-> "client", id |-> proxyClient, start |-> FALSE]
    ELSE [kind |-> "promise", id |-> nAttempts + 1, start |-> TRUE]

\* getProxyClient without the test of the cached client (lines 1654-1656)
GetProxyClientNoCache ==
    IF proxyClientPromise # NoClient
    THEN [kind |-> "promise", id |-> proxyClientPromise, start |-> FALSE]
    ELSE [kind |-> "promise", id |-> nAttempts + 1, start |-> TRUE]

\* a .catch callback that leaves the rejected promise in place
ConnectFailedKeepsPromise(k) == [client |-> proxyClient, promise |-> proxyClientPromise]

\* a construction that caches its client before the handshake has succeeded
ConnectFailedCachesClient(k) == [client |-> k, promise |-> NoClient]

\* What a call of getProxyClient returns, and whether it starts a construction
\* (lines 1654-1676): the cached client, else the promise in flight, else the
\* promise of a construction it starts.
GetProxyClient ==
    IF proxyClient # NoClient
    THEN [kind |-> "client", id |-> proxyClient, start |-> FALSE]
    ELSE IF proxyClientPromise # NoClient
    THEN [kind |-> "promise", id |-> proxyClientPromise, start |-> FALSE]
    ELSE [kind |-> "promise", id |-> nAttempts + 1, start |-> TRUE]

\* a construction that, on success, leaves its promise in proxyClientPromise
ConnectSucceededKeepsPromise(k) == [client |-> k, promise |-> proxyClientPromise]

\* lines 1668-1669, after await client.connect(transport) has returned
ConnectSucceeded(k) == [client |-> k, promise |-> NoClient]

\* lines 1671-1674, the .catch callback of the construction
ConnectFailed(k) == [client |-> proxyClient, promise |-> NoClient]

\* how getProxyClient answered, for the record of the request
How(got) ==
    IF got.start THEN "started"
    ELSE IF got.kind = "promise" THEN "joined"
    ELSE IF conn[BridgeConn(got.id)].closed THEN "cachedClosed"
    ELSE "cached"

\* The raw bodies of POST /proxy/call: not JSON; no bytes at all; JSON that is
\* falsy (null, false, 0, ""); JSON without a string member name (an object
\* without it or with another type of it, a number, a string); or a call, by
\* what it asks of the server.
CallBodies == {"unparseable", "empty", "null", "noName"} \cup (Asks \ {"list"})

\* readJsonBody(req), lines 1679-1692: null for no bytes, undefined for what
\* JSON.parse rejects, else the parsed value
ReadJsonBody(raw) ==
    IF raw = "empty" THEN "null"
    ELSE IF raw = "unparseable" THEN "undefined"
    ELSE raw

\* a check of the body that lets a body without a name through
CallCheckNoName(body) ==
    IF body = "undefined" THEN [status |-> 400, error |-> "Invalid JSON body."]
    ELSE [status |-> 0, error |-> "none"]

\* lines 1770-1775: the answer to a body that is not a call (status 0: it is one)
CallCheck(body) ==
    IF body = "undefined" THEN [status |-> 400, error |-> "Invalid JSON body."]
    ELSE IF body = "null" \/ body = "noName"
    THEN [status |-> 400, error |-> "Missing tool name."]
    ELSE [status |-> 0, error |-> "none"]

\* the bodies of POST /proxy/call that are no call (lines 1769-1775): not JSON,
\* no bytes, a falsy JSON value, no string member name
BadBodies == {"unparseable", "empty", "null", "noName"}

\* sendJson(res, 200, tools) / sendJson(res, 200, result), lines 1765, 1779:
\* the status of the answer to a call that resolved with value
ResultStatus(value) == 200

\* a sendJson that leaves the member isError out of the body
SendJsonNoIsError(payload) == [m \in DOMAIN payload \ {"isError"} |-> payload[m]]

\* sendJson(res, statusCode, payload), lines 1694-1698: the body the reader gets
SendJson(payload) == Json(payload)

\* a settling of the construction that resumes no handler
WaitersNone(k) == {}

\* the handlers that are suspended in await getProxyClient() on construction k
Waiters(k) == {r \in ProxyReqs : preq[r].pc = "awaitClient" /\ preq[r].att = k}

\* the waiters of k go on with the client (lines 1764, 1778)
ResumedReqs(k) ==
    [r \in ProxyReqs |-> IF r \in Waiters(k) THEN [preq[r] EXCEPT !.pc = "haveClient"]
                         ELSE preq[r]]

\* the waiters of k go on with the rejection: the outer catch answers each
\* (lines 1784-1788)
FailedReqs(k) ==
    [r \in ProxyReqs |-> IF r \in Waiters(k)
                         THEN [preq[r] EXCEPT !.pc = "done", !.status = OuterCatch.status,
                                              !.why = "bridge"]
                         ELSE preq[r]]

\* client.connect of construction k rejects: the .catch callback runs (lines
\* 1671-1674) and the waiters get the error.
Rejected(k) ==
    /\ attempt' = [attempt EXCEPT ![k] = [FreeAttempt EXCEPT !.st = "failed"]]
    /\ proxyClient' = ConnectFailed(k).client
    /\ proxyClientPromise' = ConnectFailed(k).promise
    /\ preq' = FailedReqs(k)
    /\ crashed' = (Waiters(k) # {} /\ OuterCatch.escaped)

\* GET /proxy/tools or POST /proxy/call arrives (lines 1762-1763, 1768-1777):
\* a bad body is answered 400; else the handler awaits getProxyClient(), and
\* goes on at once when that is settled already.
ProxyRequest(kind, body) ==
    /\ ~crashed
    /\ nProxyReqs < MaxProxyReqs
    /\ kind = "tools" <=> body = "none"
    /\ kind = "call" => body \in CallBodies
    /\ nProxyReqs' = nProxyReqs + 1
    /\ IF kind = "call" /\ CallCheck(ReadJsonBody(body)).status # 0
       THEN /\ preq' = [preq EXCEPT ![nProxyReqs + 1] =
                            [FreeReq EXCEPT !.pc = "done", !.ask = body,
                                            !.status = CallCheck(ReadJsonBody(body)).status,
                                            !.body = [error |-> CallCheck(ReadJsonBody(body)).error],
                                            !.why = "badRequest"]]
            /\ UNCHANGED <<bridgeVars, crashed>>
       ELSE LET got == GetProxyClient
                settled == IF got.kind = "client" THEN "ok"
                           ELSE IF got.start THEN "connecting"
                           ELSE attempt[got.id].st
            IN  /\ got.start => nAttempts < MaxAttempts
                /\ preq' = [preq EXCEPT ![nProxyReqs + 1] =
                       [FreeReq EXCEPT !.pc = IF settled = "ok" THEN "haveClient"
                                              ELSE IF settled = "failed" THEN "done"
                                              ELSE "awaitClient",
                                       !.status = IF settled = "failed"
                                                  THEN OuterCatch.status ELSE 0,
                                       !.why = IF settled = "failed" THEN "bridge" ELSE "none",
                                       !.ask = IF kind = "tools" THEN "list" ELSE body,
                                       !.att = got.id,
                                       !.how = How(got)]]
                /\ crashed' = (settled = "failed" /\ OuterCatch.escaped)
                /\ IF got.start
                   THEN /\ nAttempts' = nAttempts + 1
                        /\ attempt' = [attempt EXCEPT ![got.id].st = "connecting"]
                        /\ proxyClientPromise' = got.id
                        /\ UNCHANGED proxyClient
                   ELSE UNCHANGED bridgeVars
    /\ UNCHANGED <<serverVars, serverTransport, sseTransports, nConns, conn, frames, lastPost,
                   otherVars>>

\* ------------------------------------------------------------- the bridge
\* The bridge's client got the endpoint event of its connection and POSTs
\* initialize (client.connect, line 1667).  The server's initialize handler
\* completes at once, and its result is sent over the server's current transport.
BridgeInit(k) ==
    /\ ~crashed
    /\ attempt[k].st = "connecting"
    /\ BridgeConns(k) # {}
    /\ LET c == BridgeConn(k)
           out == MessageHandler(Absent, EndpointId(c), Absent, "request")
       IN  /\ conn[c].pc = "open"
           /\ ~conn[c].closed
           /\ lastPost' = PostRecord(out)
           /\ IF out.status = 202
              THEN /\ attempt' = [attempt EXCEPT ![k] =
                          [st |-> "initDone", over |-> SendResult(CapturedTransport)]]
                   /\ UNCHANGED <<proxyClient, proxyClientPromise, preq, crashed>>
              ELSE Rejected(k)
    /\ UNCHANGED <<serverVars, serverTransport, sseTransports, nConns, conn, nAttempts,
                   nProxyReqs, frames, otherVars>>

\* The initialize result arrived on the bridge's connection: the client POSTs
\* notifications/initialized, client.connect returns, lines 1668-1670 run and
\* the waiters go on with the client.
BridgeReady(k) ==
    /\ ~crashed
    /\ attempt[k].st = "initDone"
    /\ LET c == BridgeConn(k)
           out == MessageHandler(Absent, EndpointId(c), Absent, "notification")
       IN  /\ ~conn[c].closed
           /\ attempt[k].over = c
           /\ lastPost' = PostRecord(out)
           /\ IF out.status = 202
              THEN /\ proxyClient' = ConnectSucceeded(k).client
                   /\ proxyClientPromise' = ConnectSucceeded(k).promise
                   /\ attempt' = [attempt EXCEPT ![k] = [FreeAttempt EXCEPT !.st = "ok"]]
                   /\ preq' = ResumedReqs(k)
                   /\ UNCHANGED crashed
              ELSE Rejected(k)
    /\ UNCHANGED <<serverVars, serverTransport, sseTransports, nConns, conn, nAttempts,
                   nProxyReqs, frames, otherVars>>

\* client.connect rejects: the GET was answered 500, the connection ended, or
\* the initialize result did not come back on it (request timeout).
BridgeReject(k) ==
    /\ ~crashed
    /\ attempt[k].st \in {"connecting", "initDone"}
    /\ BridgeConns(k) # {}
    /\ LET c == BridgeConn(k)
       IN  \/ conn[c].pc = "done"
           \/ conn[c].closed
           \/ attempt[k].st = "initDone" /\ attempt[k].over # c
    /\ Rejected(k)
    /\ UNCHANGED <<serverVars, serverTransport, sseTransports, nConns, conn, nAttempts,
                   nProxyReqs, frames, lastPost, otherVars>>

\* ------------------------------------------------------ synchronous facade
\* client.listTools() / client.callTool(...) (lines 1764, 1778): the request
\* frame is POSTed to the bridge's session.
ProxyCallSend(r) ==
    /\ ~crashed
    /\ preq[r].pc = "haveClient"
    /\ LET c == BridgeConn(preq[r].att)
           out == MessageHandler(Absent, EndpointId(c), Absent, "request")
       IN  /\ lastPost' = PostRecord(out)
           /\ IF out.status = 202
              THEN /\ preq' = [preq EXCEPT ![r].pc = "awaitResult",
                                           ![r].via = CapturedTransport]
                   /\ UNCHANGED crashed
              ELSE /\ preq' = [preq EXCEPT ![r].pc = "done", ![r].status = OuterCatch.status,
                                           ![r].why = "transport"]
                   /\ crashed' = OuterCatch.escaped
    /\ UNCHANGED <<serverVars, serverTransport, sseTransports, nConns, conn, bridgeVars,
                   nProxyReqs, frames, otherVars>>

\* The server's handler of r's frame completes and its result is sent.
CallRespond(r) ==
    /\ ~crashed
    /\ preq[r].pc = "awaitResult"
    /\ preq' = [preq EXCEPT ![r].pc = "resultSent", ![r].via = NoTransport,
                            ![r].over = SendResult(preq[r].via),
                            ![r].result = ServerResponse(preq[r].ask)]
    /\ UNCHANGED <<serverVars, serverTransport, sseTransports, nConns, conn, bridgeVars,
                   nProxyReqs, frames, lastPost, crashed, otherVars>>

\* The response arrived on the bridge's connection.  A result: listTools /
\* callTool resolves with it and the handler answers sendJson(res, 200, result)
\* (lines 1765, 1779).  A JSON-RPC error: the call rejects and the outer catch
\* answers (lines 1784-1788).
ProxyCallResult(r) ==
    /\ ~crashed
    /\ preq[r].pc = "resultSent"
    /\ LET c == BridgeConn(preq[r].att)
       IN  /\ ~conn[c].closed
           /\ preq[r].over = c
    /\ IF preq[r].result.kind = "result"
       THEN /\ preq' = [preq EXCEPT ![r].pc = "done", ![r].over = NoTransport,
                                    ![r].status = ResultStatus(preq[r].result.value),
                                    ![r].body = SendJson(preq[r].result.value)]
            /\ UNCHANGED crashed
       ELSE /\ preq' = [preq EXCEPT ![r].pc = "done", ![r].over = NoTransport,
                                    ![r].status = OuterCatch.status,
                                    ![r].why = "protocolError"]
            /\ crashed' = OuterCatch.escaped
    /\ UNCHANGED <<serverVars, serverTransport, sseTransports, nConns, conn, bridgeVars,
                   nProxyReqs, frames, lastPost, otherVars>>

\* The call rejects (the bridge's connection ended, or the result did not come
\* back on it): the outer catch answers (lines 1784-1788).
ProxyCallError(r) ==
    /\ ~crashed
    /\ preq[r].pc \in {"awaitResult", "resultSent"}
    /\ LET c == BridgeConn(preq[r].att)
       IN  \/ conn[c].closed
           \/ preq[r].pc = "resultSent" /\ preq[r].over # c
    /\ preq' = [preq EXCEPT ![r].pc = "done", ![r].status = OuterCatch.status,
                            ![r].via = NoTransport, ![r].over = NoTransport,
                            ![r].result = NoResponse, ![r].why = "transport"]
    /\ crashed' = OuterCatch.escaped
    /\ UNCHANGED <<serverVars, serverTransport, sseTransports, nConns, conn, bridgeVars,
                   nProxyReqs, frames, lastPost, otherVars>>

\* ------------------------------------------------------------ specification
\* the (header, sessionId, session_id) triples external clients send: the id
\* in one of the three places
ClientIds == {<<v, Absent, Absent>> : v \in ReqValues}
                 \cup {<<Absent, v, Absent>> : v \in SessionIds}
                 \cup {<<Absent, Absent, v>> : v \in SessionIds}

\* ----------------------------------------------------------- the routes
\* the methods and paths of the requests considered
Methods == {"GET", "POST"}
Paths == {"/mcp", "/mcp/sse", "/mcp/messages", "/proxy/tools", "/proxy/call", "/"}

\* The route the request handler takes (the tests of lines 1715, 1735, 1762
\* and 1768, in that order; line 1782 when none holds).
Route(method, pathname) ==
    IF method = "GET" /\ pathname \in {"/mcp/sse", "/mcp"} THEN "sse"
    ELSE IF method = "POST" /\ pathname \in {"/mcp/messages", "/mcp/sse"} THEN "message"
    ELSE IF method = "GET" /\ pathname = "/proxy/tools" THEN "tools"
    ELSE IF method = "POST" /\ pathname = "/proxy/call" THEN "call"
    ELSE "notFound"

\* A request that matches no route (lines 1782-1783): 404 with the text
\* "Not Found"; nothing else of the program's state is touched.
UnroutedRequest(method, pathname) ==
    /\ ~crashed
    /\ Route(method, pathname) = "notFound"
    /\ unrouted' = [method |-> method, path |-> pathname, sent |-> EndOn(<<>>, 404),
                    body |-> "Not Found"]
    /\ UNCHANGED <<serverVars, serverTransport, sseTransports, nConns, conn, bridgeVars,
                   proxyVars, frames, lastPost, crashed, sdk, posts, resolved, toolRun>>

\* the requests that match no route
Unrouted == \E method \in Methods, pathname \in Paths : UnroutedRequest(method, pathname)

\* the streaming endpoint, for connections opened by the given owners whose
\* transports get their ids by one of the given maps
Streaming(owners, ids) ==
    \/ \E owner \in owners, sids \in ids : SseRequest(owner, sids)
    \/ \E ok \in BOOLEAN, sids \in ids : ServerSettle(ok, sids)
    \/ \E c \in Conns : CloseConn(c)

\* the triples of clients that send the id of a session in the header
HeaderIds == {<<v, Absent, Absent>> : v \in SessionIds}

\* the message endpoint, for external clients that send the given triples and
\* post the given bodies
Messages(ids, bodies) ==
    \/ \E t \in ids, body \in bodies : ClientPost(t[1], t[2], t[3], body)
    \/ \E f \in Frames : FrameRespond(f)

\* the synchronous facade and the bridge, for /proxy/* requests with the given
\* bodies ("none": GET /proxy/tools)
Facade(bodies) ==
    \/ \E kind \in {"tools", "call"}, body \in bodies : ProxyRequest(kind, body)
    \/ \E k \in Attempts : BridgeInit(k)
    \/ \E k \in Attempts : BridgeReady(k)
    \/ \E k \in Attempts : BridgeReject(k)
    \/ \E r \in ProxyReqs : ProxyCallSend(r)
    \/ \E r \in ProxyReqs : CallRespond(r)
    \/ \E r \in ProxyReqs : ProxyCallResult(r)
    \/ \E r \in ProxyReqs : ProxyCallError(r)

\* The whole program.
Next == Streaming({0} \cup Attempts, NewSessionIds) \/ Messages(ClientIds, Asks \cup {"bad"})
            \/ Facade({"none"} \cup CallBodies) \/ Unrouted

Spec == Init /\ [][Next]_vars

\* The streaming and message endpoints with external clients only.  To these two
\* endpoints the bridge is one more client: what it sends them (a GET /mcp/sse,
\* POSTs to its session id, a close) external clients send here too.
NextServer == Streaming({0}, NewSessionIds) \/ Messages(ClientIds, {"tool", "bad"})

SpecServer == Init /\ [][NextServer]_vars

\* The facade, the bridge and the streaming endpoint, without the message POSTs
\* of external clients: those change only frames and lastPost, which no action
\* of the bridge or the facade reads.  getProxyClient is called the same way
\* whatever the request asks for: the requests here are GET /proxy/tools and
\* the POSTs /proxy/call that are no call.
NextBridge == Streaming({0} \cup Attempts, NewSessionIds) \/ Facade({"none"} \cup BadBodies)

SpecBridge == Init /\ [][NextBridge]_vars

\* The two ways to a tool: call-tool frames of streaming clients and POSTs
\* /proxy/call, for calls that the tool's handler carries out or fails.
ToolCalls == {"tool", "toolFails"}

NextCalls == Streaming({0} \cup Attempts, NewSessionIds) \/ Messages(HeaderIds, ToolCalls)
                 \/ Facade(ToolCalls)

SpecCalls == Init /\ [][NextCalls]_vars

\* The streaming and message endpoints with external clients whose POSTs come
\* in two parts, the headers and then the body.
NextOrder ==
    \/ Streaming({0}, NewSessionIds)
    \/ \E t \in HeaderIds \cup {<<Absent, Absent, Absent>>} : PostArrive(t[1], t[2], t[3])
    \/ \E p \in Posts, body \in {"tool", "notification", "bad"} : PostBody(p, body)
    \/ \E f \in Frames : FrameRespond(f)

SpecOrder == Init /\ [][NextOrder]_vars

\* the handlers of the path tools on their own, for every kind of argument
NextTools ==
    \/ \E tool \in PathTools, kind \in PathKinds, extra \in ExtraKinds, env \in Envs :
           RunTool(tool, kind, extra, env)
    \/ \E tool \in PathTools, failure \in Failures : FailTool(tool, failure)

SpecTools == Init /\ [][NextTools]_vars

\* The streaming and message endpoints with transports of which nothing is
\* assumed: two may have the same id, and one may have none.
NextRegistry == Streaming({0}, AnySessionIds) \/ Messages(ClientIds, {"tool", "bad"})

SpecRegistry == Init /\ [][NextRegistry]_vars

\* Every route of the request handler: streaming connections of external
\* clients and of the bridge, message POSTs of clients that send a session's
\* id, an unknown id or none in the header and post a notification or a body
\* that is no message, GET /proxy/tools and a POST /proxy/call without a tool
\* name, and the requests that match no route.
NextResponses ==
    \/ Streaming({0} \cup Attempts, NewSessionIds)
    \/ \E t \in HeaderIds \cup {<<Absent, Absent, Absent>>, <<StrayId, Absent, Absent>>},
          body \in {"notification", "bad"} : ClientPost(t[1], t[2], t[3], body)
    \/ Facade({"none", "noName"})
    \/ Unrouted

SpecResponses == Init /\ [][NextResponses]_vars

\* The facade, the bridge and the streaming endpoint under fair scheduling.
\* Node's event loop runs every callback that is ready, and the SDK's client
\* ends every wait (for the endpoint event, for a result) with the event or
\* with an error or timeout: each step of the server's construction, of the
\* bridge and of a facade request is taken if it stays enabled.  The bridge's
\* own GET /mcp/sse is among them; requests of external clients are not.
NextLive == Streaming({0} \cup Attempts, NewSessionIds) \/ Facade({"none", "tool"})

Fairness ==
    /\ WF_vars(\E ok \in BOOLEAN, sids \in NewSessionIds : ServerSettle(ok, sids))
    /\ WF_vars(\E k \in Attempts, sids \in NewSessionIds : SseRequest(k, sids))
    /\ WF_vars(\E k \in Attempts : BridgeInit(k))
    /\ WF_vars(\E k \in Attempts : BridgeReady(k))
    /\ WF_vars(\E k \in Attempts : BridgeReject(k))
    /\ WF_vars(\E r \in ProxyReqs : ProxyCallSend(r))
    /\ WF_vars(\E r \in ProxyReqs : CallRespond(r))
    /\ WF_vars(\E r \in ProxyReqs : ProxyCallResult(r))
    /\ WF_vars(\E r \in ProxyReqs : ProxyCallError(r))

SpecLive == Init /\ [][NextLive]_vars /\ Fairness

\* getSessionId on its own, for every header and every pair of query parameters
NextIds == \E header \in ReqValues, q1 \in ReqValues, q2 \in ReqValues :
               ResolveId(header, q1, q2)

SpecIds == Init /\ [][NextIds]_vars

\* The facade with every kind of request, the bridge and the streaming endpoint.
NextFacade == Streaming({0} \cup Attempts, NewSessionIds) \/ Facade({"none"} \cup CallBodies)

SpecFacade == Init /\ [][NextFacade]_vars

\* ================================================================= claims
\* the bridge constructions whose client.connect has not settled
InFlight == {k \in Attempts : attempt[k].st \in {"connecting", "initDone"}}

\* the requests that hold a client returned by getProxyClient
HoldsClient(r) == preq[r].pc \in {"haveClient", "awaitResult", "resultSent"}

\* C1: Whatever the interleaving of getProxyClient calls, at most one bridge
\* construction is in flight at any instant; the promise in flight is the one
\* proxyClientPromise holds; a call that arrives while it is in flight joins
\* the construction started by an earlier call, and every call that gets a
\* client gets the one cached instance.
C1_SingleFlight ==
    /\ Cardinality(InFlight) <= 1
    /\ \A k \in InFlight : proxyClientPromise = k /\ proxyClient = NoClient
    /\ \A r \in ProxyReqs :
           preq[r].how = "joined" =>
               \E r0 \in ProxyReqs : /\ r0 < r
                                     /\ preq[r0].how = "started"
                                     /\ preq[r0].att = preq[r].att
    /\ \A r \in ProxyReqs : HoldsClient(r) => preq[r].att = proxyClient

\* two calls wait for the same construction, which is in flight
C1_Witness ==
    \E r1, r2 \in ProxyReqs :
        /\ r1 # r2
        /\ preq[r1].pc = "awaitClient" /\ preq[r1].how = "started"
        /\ preq[r2].pc = "awaitClient" /\ preq[r2].how = "joined"
        /\ preq[r1].att = preq[r2].att
        /\ preq[r1].att \in InFlight

\* C2: When the handshake of construction k has failed (its .catch has run),
\* k is neither the cached client nor the promise in flight, every caller that
\* waited on k gets the error (it never holds a client, and is answered 500),
\* the bridge is back to Uninitialized until another construction starts, and
\* a getProxyClient call made in that state starts a fresh construction.
C2_FailureResets ==
    /\ [](\A k \in Attempts :
              attempt[k].st = "failed" =>
                  /\ proxyClient # k
                  /\ proxyClientPromise # k
                  /\ \A r \in ProxyReqs :
                         preq[r].att = k =>
                             preq[r].pc = "done" /\ preq[r].status = 500
                  /\ k = nAttempts =>
                         proxyClient = NoClient /\ proxyClientPromise = NoClient)
    /\ [][\A r \in ProxyReqs :
              (/\ nAttempts >= 1
               /\ attempt[nAttempts].st = "failed"
               /\ preq[r].pc = "free"
               /\ preq'[r].pc \notin {"free", "done"})
              => /\ preq'[r].how = "started"
                 /\ preq'[r].att = nAttempts + 1
                 /\ proxyClientPromise' = nAttempts + 1
                 /\ attempt'[nAttempts + 1].st = "connecting"]_vars

\* a construction failed, its waiter was answered 500, and a later call started
\* the next construction
C2_Witness ==
    /\ attempt[1].st = "failed"
    /\ preq[1].att = 1 /\ preq[1].pc = "done" /\ preq[1].status = 500
    /\ preq[2].how = "started" /\ preq[2].att = 2
    /\ proxyClientPromise = 2

\* C3: The bridge is Ready with client k exactly when the handshake of
\* construction k has succeeded, whatever number of constructions failed before
\* it; a failed construction is never the cached client.
C3_ReadyIffSucceeded ==
    \A k \in Attempts :
        /\ proxyClient = k <=> attempt[k].st = "ok"
        /\ attempt[k].st = "ok" =>
               /\ BridgeConns(k) # {}
               /\ conn[BridgeConn(k)].pc = "open"
               /\ \A j \in 1..(k - 1) : attempt[j].st = "failed"

\* Ready reached by the second construction after the first one failed
C3_Witness ==
    /\ attempt[1].st = "failed"
    /\ attempt[2].st = "ok"
    /\ proxyClient = 2

\* C9: Once the bridge is Ready, no step changes proxyClient, sets
\* proxyClientPromise or starts a construction, and every getProxyClient call
\* made from then on returns the cached client, also after the bridge's own
\* streaming connection has closed.
C9_ReadyForever ==
    [][proxyClient # NoClient =>
           /\ proxyClient' = proxyClient
           /\ proxyClientPromise' = NoClient
           /\ nAttempts' = nAttempts
           /\ \A r \in ProxyReqs :
                  (preq[r].pc = "free" /\ preq'[r].pc \notin {"free", "done"})
                  => /\ preq'[r].pc = "haveClient"
                     /\ preq'[r].att = proxyClient
                     /\ preq'[r].how \in {"cached", "cachedClosed"}]_vars

\* a call got the cached client after the bridge's connection had closed and
\* its session had left the registry
C9_Witness ==
    \E r \in ProxyReqs :
        /\ preq[r].how = "cachedClosed"
        /\ preq[r].att = proxyClient
        /\ conn[BridgeConn(proxyClient)].closed
        /\ \A s \in SessionIds : sseTransports[s] # BridgeConn(proxyClient)

\* C10: A streaming request that finds the shared server's construction failed
\* is answered 500, a /proxy/* request whose bridge construction failed is
\* answered 500, and no exception escapes a request handler, so that later
\* requests are still handled.
C10_FailureAnswered500 ==
    /\ ~crashed
    /\ \A c \in Conns :
           (mcpServerPromise = "rejected" /\ conn[c].pc # "free")
           => conn[c].pc = "done" /\ conn[c].status = 500
    /\ \A r \in ProxyReqs :
           (preq[r].att # NoClient /\ attempt[preq[r].att].st = "failed")
           => preq[r].pc = "done" /\ preq[r].status = 500

\* the server's construction failed, the bridge's streaming request and the
\* first /proxy/* request were answered 500, and a second /proxy/* request was
\* then handled: it started the next construction
C10_Witness ==
    /\ mcpServerPromise = "rejected"
    /\ \E c \in Conns : conn[c].owner = 1 /\ conn[c].pc = "done" /\ conn[c].status = 500
    /\ attempt[1].st = "failed"
    /\ preq[1].pc = "done" /\ preq[1].status = 500
    /\ preq[2].how = "started"

\* C4: Every entry of the registry belongs to a streaming connection that is
\* still open, also when a connection closed while its handler was awaiting
\* the shared server's construction.
C4_RegistryOnlyOpen ==
    \A s \in SessionIds :
        sseTransports[s] # NoTransport => ~conn[sseTransports[s]].closed

\* C5: A message POST that resolves to a session id held by the registry is
\* handed to the transport registered under that id, and to no other.
C5_RoutesToRegistered ==
    /\ lastPost.present # NoTransport =>
           /\ lastPost.to = lastPost.present
           /\ lastPost.status \in {202, 400, 500}
    /\ lastPost.to # NoTransport => lastPost.to = lastPost.present
    /\ \A f \in Frames :
           frames[f].state # "free" => conn[frames[f].to].pc = "open"

\* two sessions are registered, and a POST for the second one was accepted by
\* the second one's transport
C5_Witness ==
    /\ sseTransports[1] = 1
    /\ sseTransports[2] = 2
    /\ lastPost.sid = 2 /\ lastPost.status = 202 /\ lastPost.to = 2

\* C6: A message POST whose resolved session id is not in the registry (never
\* registered, or removed by its connection's close) is answered 404 with
\* the error "Unknown sessionId.", and no transport is handed the request.
C6_UnknownIs404 ==
    (lastPost.sid # NoId /\ lastPost.present = NoTransport) =>
        /\ lastPost.status = 404
        /\ lastPost.error = "Unknown sessionId."
        /\ lastPost.to = NoTransport

\* a POST for the id of a session that was registered and whose connection has
\* closed since was answered 404
C6_Witness ==
    \E c \in Conns :
        /\ conn[c].pc = "open" /\ conn[c].closed /\ conn[c].sid # NoId
        /\ lastPost.sid = conn[c].sid
        /\ lastPost.status = 404

\* the request frames whose result has been sent: the connection each came in
\* on and the connection its result went out on
SentResults ==
    {<<frames[f].to, frames[f].over>> : f \in {g \in Frames : frames[g].state = "responded"}}
    \cup {<<BridgeConn(k), attempt[k].over>> : k \in {j \in Attempts : attempt[j].st = "initDone"}}
    \cup {<<BridgeConn(preq[r].att), preq[r].over>> :
              r \in {q \in ProxyReqs : preq[q].pc = "resultSent"}}

\* C7: The result of a frame delivered to a session is sent over that
\* session's transport, whatever other sessions are bound to the shared server.
C7_ResultOverOwnSession ==
    \A p \in SentResults : p[2] = p[1]

\* C8: createMcpServer is invoked at most once; a streaming request starts it
\* exactly when none was started before, the requests that arrive while it is
\* pending await it, and every accepted connection is bound to that one server.
C8_ServerBuiltOnce ==
    /\ createCalls <= 1
    /\ createCalls = 0 <=> mcpServerPromise = "null"
    /\ nConns > 0 => createCalls = 1
    /\ \A c \in Conns : conn[c].pc = "open" => conn[c].server = 1

\* two connections, the second of which arrived while the server was being
\* built, are both bound to the one server
C8_Witness ==
    /\ createCalls = 1
    /\ conn[1].pc = "open" /\ conn[1].server = 1
    /\ conn[2].pc = "open" /\ conn[2].server = 1

\* the POST /proxy/call requests that have been answered
AnsweredCalls == {r \in ProxyReqs : preq[r].pc = "done" /\ preq[r].ask \in CallBodies}

\* C11: A POST /proxy/call whose callTool resolved with a ToolResult is answered
\* 200 with that result as the body, isError or not; it is answered 400 only
\* when its body is malformed, and 500 only when the bridge's construction or
\* the transport failed, never for what the call asked (a tool-level outcome
\* such as invalid arguments).
C11_StatusByOutcome ==
    \A r \in AnsweredCalls :
        /\ preq[r].result.kind = "result" =>
               preq[r].status = 200 /\ preq[r].body = Json(preq[r].result.value)
        /\ preq[r].status = 400 => preq[r].ask \in BadBodies
        /\ preq[r].status = 500 => preq[r].why \in {"bridge", "transport"}

\* C12: A POST /proxy/call with a well-formed body that names no registered
\* tool is answered 200 with a result that carries isError: true, never 4xx or
\* 5xx.  (Stated where the claim has most in its favour: the bridge was built,
\* its connection is open, and the SDK reports an unknown tool as a ToolResult.)
C12_UnknownToolIs200 ==
    \A r \in AnsweredCalls :
        (/\ preq[r].ask = "unknown"
         /\ sdk = "toolError"
         /\ preq[r].att = proxyClient
         /\ ~conn[BridgeConn(preq[r].att)].closed)
        => /\ preq[r].status = 200
           /\ preq[r].body = ToolResult("true")

\* C13: A POST /proxy/call whose body is not JSON, is empty, or has no string
\* name is answered 400; getProxyClient and callTool are not invoked for it,
\* and the step that answers it leaves the bridge's state and the registry as
\* they were.
C13_MalformedIs400 ==
    /\ [](\A r \in ProxyReqs :
              preq[r].ask \in BadBodies =>
                  /\ preq[r].pc = "done" /\ preq[r].status = 400
                  /\ preq[r].att = NoClient /\ preq[r].how = "none"
                  /\ preq[r].via = NoTransport /\ preq[r].result = NoResponse)
    /\ [][\A r \in ProxyReqs :
              (preq[r].pc = "free" /\ preq'[r].ask \in BadBodies)
              => UNCHANGED <<proxyClient, proxyClientPromise, nAttempts, attempt,
                             sseTransports, serverTransport, conn>>]_vars

\* a body without a string name was answered 400 while a bridge construction
\* was in flight, which still is
C13_Witness ==
    /\ preq[1].how = "started" /\ preq[1].pc = "awaitClient"
    /\ proxyClientPromise = 1
    /\ preq[2].ask = "noName" /\ preq[2].pc = "done" /\ preq[2].status = 400

\* the GET /proxy/tools requests whose listTools() resolved
AnsweredLists ==
    {r \in ProxyReqs : preq[r].pc = "done" /\ preq[r].ask = "list"
                       /\ preq[r].result.kind = "result"}

C14_MissingIs400 ==
    (lastPost.status # 0 /\ lastPost.sid = NoId) =>
        /\ lastPost.status = 400
        /\ lastPost.error = "Missing sessionId."
        /\ lastPost.to = NoTransport
        /\ \A f \in Frames : frames[f].state # "free" => frames[f].to # NoTransport

\* a POST without a usable id was answered 400 while a session was registered
\* and open
C14_Witness ==
    /\ lastPost.status = 400 /\ lastPost.sid = NoId
    /\ \E s \in SessionIds :
           sseTransports[s] # NoTransport /\ ~conn[sseTransports[s]].closed

\* the first of the three values that is not blank, or NoId when all are blank
FirstNonBlank(header, q1, q2) ==
    IF NonBlank(header) THEN header
    ELSE IF NonBlank(q1) THEN q1
    ELSE IF NonBlank(q2) THEN q2
    ELSE NoId

\* C15: getSessionId resolves the header mcp-session-id when it is not blank,
\* otherwise the query parameter sessionId, otherwise session_id; it reports a
\* missing id only when none of the three is non-blank (a blank header or a
\* blank sessionId hides no usable value further down).
C15_FirstNonBlankWins ==
    resolved.id = FirstNonBlank(resolved.header, resolved.sessionId, resolved.session_id)

\* C16: A message POST whose delegation to the transport's handlePostMessage
\* fails (the body cannot be parsed or dispatched) is answered 400 with the
\* error's message, within the message handler; the registry, the transports of
\* the sessions, the shared server and the bridge are as they were before it.
C16_DelegationFailureIs400 ==
    /\ [](lastPost.to # NoTransport =>
             /\ lastPost.status \in {202, 400}
             /\ lastPost.status = 400 => lastPost.error = "Invalid message")
    /\ [](~crashed)
    /\ [][(lastPost' # lastPost /\ lastPost'.to # NoTransport /\ lastPost'.status # 202)
            => UNCHANGED <<sseTransports, conn, serverTransport, serverVars, bridgeVars,
                           frames, crashed>>]_vars

\* the POST of a body that cannot be dispatched, to the first of two registered
\* sessions, was answered 400 while a frame of the second session is in progress
C16_Witness ==
    /\ sseTransports[1] = 1 /\ sseTransports[2] = 2
    /\ lastPost.to = 1 /\ lastPost.status = 400 /\ lastPost.error = "Invalid message"
    /\ \E f \in Frames : frames[f].state = "dispatched" /\ frames[f].to = 2

\* the call-tool frames of streaming clients whose ToolResult went out on a stream
DeliveredFrames ==
    {f \in Frames : /\ frames[f].state = "responded"
                    /\ frames[f].over # NoTransport
                    /\ frames[f].result.kind = "result"}

C18_DispatchInArrivalOrder ==
    \A p \in Posts : \A q \in Posts :
        (/\ posts[p].to # NoTransport /\ posts[p].to = posts[q].to
         /\ posts[p].dispatched # 0 /\ posts[q].dispatched # 0
         /\ posts[p].arrived < posts[q].arrived)
        => posts[p].dispatched < posts[q].dispatched

\* C19: In every tool that takes a path argument, a relative path that contains
\* '..' is rejected with an isError result before the handler writes a file,
\* makes a directory or runs an external command.
C19_DotsRejected ==
    (toolRun.path = "relDots" \/ toolRun.extra = "relDots") =>
        toolRun.isError /\ toolRun.effects = {}

\* the state of the bridge, by proxyClient and proxyClientPromise
BridgeState ==
    IF proxyClient = NoClient /\ proxyClientPromise = NoClient THEN "Uninitialized"
    ELSE IF proxyClient = NoClient THEN "Initializing"
    ELSE IF proxyClientPromise = NoClient THEN "Ready"
    ELSE "ClientAndPromise"

\* C29: Wherever another request handler can run, the bridge is Uninitialized
\* (proxyClient and proxyClientPromise both null), Initializing (only
\* proxyClientPromise set) or Ready (only proxyClient set): the cached client
\* and the promise in flight are never both set.
C29_ThreeStates ==
    /\ BridgeState \in {"Uninitialized", "Initializing", "Ready"}
    /\ BridgeState = "Initializing" => proxyClientPromise \in InFlight
    /\ BridgeState = "Ready" => attempt[proxyClient].st = "ok"

\* the bridge is Ready, having been Initializing with a second caller joined
C29_Witness ==
    /\ BridgeState = "Ready"
    /\ \E r \in ProxyReqs : preq[r].how = "joined" /\ preq[r].att = proxyClient

\* C30: Whenever the bridge is Ready the shared server has been built
\* (mcpServerPromise is resolved) and the bridge's client is connected through
\* a connection that the streaming endpoint handler accepted; at the step that
\* makes the bridge Ready that connection's session is in the registry, the
\* same one that holds the sessions of external clients.
C30_ReadyThroughStreaming ==
    /\ [](proxyClient # NoClient =>
             /\ mcpServerPromise = "resolved"
             /\ BridgeConns(proxyClient) # {}
             /\ conn[BridgeConn(proxyClient)].pc = "open"
             /\ conn[BridgeConn(proxyClient)].sid \in SessionIds
             /\ conn[BridgeConn(proxyClient)].server = createCalls)
    /\ [][\A k \in Attempts :
              (proxyClient = NoClient /\ proxyClient' = k)
              => sseTransports[conn[BridgeConn(k)].sid] = BridgeConn(k)]_vars

\* the bridge is Ready while its session and an external client's session are
\* both in the registry
C30_Witness ==
    /\ proxyClient # NoClient
    /\ \E s, u \in SessionIds :
           /\ sseTransports[s] = BridgeConn(proxyClient)
           /\ sseTransports[u] # NoTransport
           /\ conn[sseTransports[u]].owner = 0

\* C27: The construction of the shared server is never retried: once
\* createMcpServer has rejected, mcpServerPromise stays rejected,
\* createMcpServer is not invoked again, and every streaming request, earlier
\* or later, is answered 500.
C27_ServerNeverRetried ==
    /\ [](mcpServerPromise = "rejected" =>
             /\ createCalls = 1
             /\ \A c \in Conns : conn[c].pc # "free" =>
                    conn[c].pc = "done" /\ conn[c].status = 500)
    /\ [][mcpServerPromise = "rejected" =>
             mcpServerPromise' = "rejected" /\ createCalls' = createCalls]_vars

\* the construction failed with one streaming request waiting, and a streaming
\* request that came later was answered 500 as well
C27_Witness ==
    /\ mcpServerPromise = "rejected" /\ createCalls = 1
    /\ nConns = MaxConns
    /\ \A c \in Conns : conn[c].pc = "done" /\ conn[c].status = 500

\* the connections that the step accepts with the id s
AcceptedWith(s) ==
    {c \in Conns : conn[c].pc # "open" /\ conn'[c].pc = "open" /\ conn'[c].sid = s}

\* the connections whose close the step is
Closing == {c \in Conns : ~conn[c].closed /\ conn'[c].closed}

\* C23: The registry holds at most one transport for a session id; registering
\* a transport under an id that is present already replaces the earlier one: a
\* lookup of the id then gives the newer transport, and the earlier one cannot
\* be reached through the registry any more.
C23_OnePerIdNewerWins ==
    /\ [](\A s \in SessionIds :
              sseTransports[s] # NoTransport =>
                  /\ conn[sseTransports[s]].pc = "open"
                  /\ conn[sseTransports[s]].sid = s)
    /\ [][\A s \in SessionIds :
              AcceptedWith(s) # {} =>
                  /\ Lookup(sseTransports', s) \in AcceptedWith(s)
                  /\ \A c \in AcceptedWith(s) : c <= Lookup(sseTransports', s)
                  /\ \A u \in Keys : sseTransports[s] # NoTransport =>
                         sseTransports'[u] # sseTransports[s]]_vars

\* two open connections have the same id, and the registry holds the later one
C23_Witness ==
    \E s \in SessionIds :
        /\ conn[1].pc = "open" /\ conn[1].sid = s /\ ~conn[1].closed
        /\ conn[2].pc = "open" /\ conn[2].sid = s
        /\ sseTransports[s] = 2

\* C24: A streaming connection whose transport has no session id is accepted
\* and bound to the shared server all the same; nothing is registered for it
\* (the registry never has an entry under the empty key) and its close changes
\* nothing in the registry, so that a message POST meant for it is answered
\* 400 or 404 and never reaches its transport.
C24_NoIdNotRegistered ==
    /\ [](/\ sseTransports[NoId] = NoTransport
          /\ \A c \in Conns :
                 (conn[c].pc = "open" /\ conn[c].sid = NoId) =>
                     /\ conn[c].status = 200
                     /\ conn[c].server = createCalls
                     /\ \A s \in Keys : sseTransports[s] # c
                     /\ lastPost.to # c
                     /\ \A f \in Frames : frames[f].state # "free" => frames[f].to # c
          /\ lastPost.to = NoTransport => lastPost.status \in {0, 400, 404})
    /\ [][\A c \in Closing : conn[c].sid = NoId => sseTransports' = sseTransports]_vars
    /\ [][\A c \in AcceptedWith(NoId) :
              sseTransports' = sseTransports \/ \E s \in SessionIds : AcceptedWith(s) # {}]_vars

\* a connection without id is open, it is the shared server's current
\* transport, and a POST to the id its client was told was answered 404
C24_Witness ==
    \E c \in Conns :
        /\ conn[c].pc = "open" /\ conn[c].sid = NoId /\ ~conn[c].closed
        /\ serverTransport = c
        /\ lastPost.sid = EndpointId(c) /\ lastPost.status = 404

\* C25: Removing a session id is idempotent: the removal of an id that is
\* absent (never registered, or removed already) changes nothing and raises no
\* error, and removing an id twice gives the registry that removing it once
\* gives.
C25_UnregisterIdempotent ==
    /\ ~crashed
    /\ \A s \in Keys \cup {StrayId} :
           /\ Unregister(Unregister(sseTransports, s), s) = Unregister(sseTransports, s)
           /\ Lookup(sseTransports, s) = NoTransport =>
                  Unregister(sseTransports, s) = sseTransports
           /\ \A u \in Keys : u # s => Unregister(sseTransports, s)[u] = sseTransports[u]

\* two connections with the same id have both closed: the second close found
\* the id removed already
C25_Witness ==
    \E s \in SessionIds :
        /\ conn[1].pc = "open" /\ conn[1].sid = s /\ conn[1].closed
        /\ conn[2].pc = "open" /\ conn[2].sid = s /\ conn[2].closed
        /\ sseTransports[s] = NoTransport

\* C28: The close of a streaming connection removes the entry that is stored
\* under the connection's own session id, whichever connection registered it,
\* and no other entry.
C28_CloseRemovesOwnId ==
    [][\A c \in Closing : \A s \in Keys :
           sseTransports'[s] = IF conn[c].pc = "open" /\ s = conn[c].sid THEN NoTransport
                               ELSE sseTransports[s]]_vars

\* the earlier of two connections with the same id has closed, and the entry
\* of the later one, which is open, is gone
C28_Witness ==
    \E s \in SessionIds :
        /\ conn[1].pc = "open" /\ conn[1].sid = s /\ conn[1].closed
        /\ conn[2].pc = "open" /\ conn[2].sid = s /\ ~conn[2].closed
        /\ sseTransports[s] = NoTransport

\* C28: The close of a streaming connection removes from the registry only the
\* entry that this connection registered, never the entry of another
\* connection that is still open, also when the two connections have the same
\* session id.
C28_CloseRemovesOwnEntry ==
    [][\A c \in Closing : \A s \in Keys :
           (/\ sseTransports[s] # NoTransport
            /\ sseTransports[s] # c
            /\ ~conn[sseTransports[s]].closed)
           => sseTransports'[s] = sseTransports[s]]_vars

\* The bound on the connections of a run keeps the bridge's GET /mcp/sse from
\* arriving (the server itself accepts connections without bound).
Starved ==
    \E k \in InFlight : BridgeConns(k) = {} /\ nConns = MaxConns

\* C26: Under fair scheduling, a /proxy/tools or /proxy/call request that
\* arrives while the bridge is Uninitialized is answered in the end: while its
\* handler is suspended in getProxyClient the server accepts the bridge's own
\* GET /mcp/sse and handles its handshake POSTs, so the loop through the
\* server's own endpoints does not deadlock.
C26_EventuallyAnswered ==
    \A r \in ProxyReqs :
        (preq[r].how = "started" /\ preq[r].pc = "awaitClient")
        ~> (preq[r].pc = "done" \/ Starved)

\* the request that started the construction was answered 200 through the
\* bridge
C26_Witness ==
    \E r \in ProxyReqs :
        /\ preq[r].how = "started" /\ preq[r].pc = "done" /\ preq[r].status = 200
        /\ preq[r].att = proxyClient

\* C21: Every failure inside a tool handler (invalid path, a target that exists
\* but is not a directory, a directory that cannot be made, a failed external
\* command, a failed download) is caught by the handler and returned as a
\* result with isError: true; no exception leaves a tool handler.
C21_FailuresReturned ==
    toolRun.env \in Failures => toolRun.isError /\ ~toolRun.thrown

\* C22: Every request other than an accepted streaming connection is answered
\* exactly once.  A message POST is answered 400 or 404 by the handler, or by
\* the transport it was handed to (202, 400, 500); a refused streaming request
\* and a failed facade request are answered 500; a request that matches no
\* route is answered 404 "Not Found"; no response is followed by a second one,
\* no exception leaves a handler, and an answer once given does not change.
\* Whatever a transport answers before it returns or throws (500 on a
\* transport without its stream) is the one response of that POST.
C22_OneResponse ==
    /\ [](/\ ~crashed
          /\ lastPost # NoPost =>
                 /\ lastPost.sent = <<lastPost.status>>
                 /\ lastPost.status \in {202, 400, 404, 500}
                 /\ lastPost.to = NoTransport => lastPost.status \in {400, 404}
          /\ unrouted # NoUnrouted =>
                 /\ unrouted.sent = <<404>>
                 /\ unrouted.body = "Not Found"
                 /\ Route(unrouted.method, unrouted.path) = "notFound"
          /\ \A c \in Conns : conn[c].pc = "done" => conn[c].status = 500
          /\ \A r \in ProxyReqs : preq[r].pc = "done" => preq[r].status \in {200, 400, 500}
          /\ \A c \in Conns, st \in {202, 400, 500} :
                 Written([sid |-> conn[c].sid, status |-> st, error |-> "none", to |-> c])
                     = <<st>>)
    /\ [][/\ \A r \in ProxyReqs : preq[r].pc = "done" => preq'[r] = preq[r]
          /\ \A c \in Conns : conn[c].pc = "done" => conn'[c] = conn[c]]_vars

\* a message POST for an unknown session was answered 404, a request that
\* matches no route 404 "Not Found", and a facade request was answered
C22_Witness ==
    /\ lastPost.status = 404
    /\ lastPost.sent = <<404>>
    /\ unrouted.method = "POST"
    /\ unrouted.path = "/proxy/tools"
    /\ unrouted.sent = <<404>>
    /\ \E r \in ProxyReqs : preq[r].pc = "done" /\ preq[r].status = 200
====
